---- MODULE Spec2Model ----
(***************************************************************************)
(* A model of src/app.py, the "CT Report Generator": parse_limit_string,   *)
(* analyze_data_quality, process_file, generate_pdf and the main           *)
(* interface that chains them.                                             *)
(*                                                                         *)
(* Text is a sequence of one-character strings (<<"p","H">> is "pH"); the  *)
(* en dash U+2013 is the single character written "ndash".  A number is a  *)
(* fixed-point integer with FracDigits decimals (Scale units per 1.0).     *)
(* A Python value is a record with its type: None, Float(n), PyText(t).    *)
(***************************************************************************)
EXTENDS Integers, Sequences, FiniteSets, TLC

VARIABLES
    pc,             \* position of the script: see the actions
    uploaded_file,  \* the uploaded source: [readable, rows]
    df,             \* the table process_file returned, or None
    limits,         \* the limit map process_file returned, or None
    locals,         \* process_file's locals when it returned or raised
    error,          \* the message st.error showed, or None
    quality,        \* analyze_data_quality's report, or None
    pdf,            \* what generate_pdf returned, or None
    violations,     \* the violation list, or None
    limit_str,      \* parse_limit_string's argument
    parsed          \* parse_limit_string's result, or None

vars == <<pc, uploaded_file, df, limits, locals, error, quality, pdf,
          violations, limit_str, parsed>>

\* Python's None
None == [type |-> "NoneType"]

\* a Python float, in fixed point
Float(n) == [type |-> "float", val |-> n]

\* a Python str
PyText(t) == [type |-> "str", val |-> t]

\* isinstance(v, str)
IsStr(v) == v.type = "str"

\* what re.search returns when nothing matches
NoMatch == <<>>

-----------------------------------------------------------------------------
(* Bounds of the model                                                     *)

\* longest text handed to parse_limit_string in SpecParse
MaxLen == 4
\* most rows of a grid in SpecHeader
MaxRows == 22
\* most data rows under the header row in the other specifications
MaxDataRows == 2
\* days of January 2024 that date cells name
MaxDay == 3

-----------------------------------------------------------------------------
(* Text: str.strip, str.lower, str.replace, the "in" substring test        *)

Digits == {"0", "1", "2", "3", "4", "5", "6", "7", "8", "9"}

DigitVal(c) ==
    CASE c = "0" -> 0 [] c = "1" -> 1 [] c = "2" -> 2 [] c = "3" -> 3
      [] c = "4" -> 4 [] c = "5" -> 5 [] c = "6" -> 6 [] c = "7" -> 7
      [] c = "8" -> 8 [] c = "9" -> 9

Whitespace == {" "}

LowerMap ==
    ("A" :> "a") @@ ("B" :> "b") @@ ("C" :> "c") @@ ("D" :> "d") @@
    ("E" :> "e") @@ ("F" :> "f") @@ ("G" :> "g") @@ ("H" :> "h") @@
    ("I" :> "i") @@ ("J" :> "j") @@ ("K" :> "k") @@ ("L" :> "l") @@
    ("M" :> "m") @@ ("N" :> "n") @@ ("O" :> "o") @@ ("P" :> "p") @@
    ("Q" :> "q") @@ ("R" :> "r") @@ ("S" :> "s") @@ ("T" :> "t") @@
    ("U" :> "u") @@ ("V" :> "v") @@ ("W" :> "w") @@ ("X" :> "x") @@
    ("Y" :> "y") @@ ("Z" :> "z")

\* str.lower()
Lower(s) == [i \in 1..Len(s) |-> IF s[i] \in DOMAIN LowerMap THEN LowerMap[s[i]] ELSE s[i]]

\* str.strip(): leading and trailing whitespace removed
Strip(s) ==
    LET inner == {i \in 1..Len(s) : s[i] \notin Whitespace}
    IN  IF inner = {} THEN <<>>
        ELSE LET a == CHOOSE i \in inner : \A j \in inner : i <= j
                 b == CHOOSE i \in inner : \A j \in inner : j <= i
             IN  SubSeq(s, a, b)

\* sub in s
Contains(sub, s) ==
    \E i \in 1..(Len(s) - Len(sub) + 1) : SubSeq(s, i, i + Len(sub) - 1) = sub

RECURSIVE ReplaceFrom(_, _, _, _)
ReplaceFrom(s, i, old, new) ==
    IF i > Len(s) THEN <<>>
    ELSE IF i + Len(old) - 1 <= Len(s) /\ SubSeq(s, i, i + Len(old) - 1) = old
         THEN new \o ReplaceFrom(s, i + Len(old), old, new)
         ELSE <<s[i]>> \o ReplaceFrom(s, i + 1, old, new)

\* str.replace(old, new): left to right, occurrences do not overlap
Replace(s, old, new) == ReplaceFrom(s, 1, old, new)

-----------------------------------------------------------------------------
(* Numbers: float(text) for the texts \d+\.?\d* matches                    *)

FracDigits == MaxLen

RECURSIVE Pow10(_)
Pow10(n) == IF n = 0 THEN 1 ELSE 10 * Pow10(n - 1)

Scale == Pow10(FracDigits)

RECURSIVE DigitsVal(_)
DigitsVal(s) == IF s = <<>> THEN 0 ELSE 10 * DigitsVal(SubSeq(s, 1, Len(s) - 1)) + DigitVal(s[Len(s)])

\* first index >= i of s that is not in set (Len(s) + 1 when there is none)
RECURSIVE Skip(_, _, _)
Skip(s, i, set) == IF i <= Len(s) /\ s[i] \in set THEN Skip(s, i + 1, set) ELSE i

\* float(t) for t = digits [ "." digits ]
ToFloat(t) ==
    LET a == Skip(t, 1, Digits)
        frac == SubSeq(t, a + 1, Len(t))
    IN  DigitsVal(SubSeq(t, 1, a - 1)) * Scale
        + (IF Len(frac) <= FracDigits
           THEN DigitsVal(frac) * Pow10(FracDigits - Len(frac))
           ELSE DigitsVal(SubSeq(frac, 1, FracDigits)))

-----------------------------------------------------------------------------
(* parse_limit_string                                                      *)

\* where a match of (\d+\.?\d*) starting at i ends (exclusive); 0 when s[i]
\* is no digit.  The quantifiers are greedy, and giving characters back
\* never helps: what follows a shorter match is a digit or ".", which
\* neither \s*- nor the end of the pattern wants.
NumEnd(s, i) ==
    IF i > Len(s) \/ s[i] \notin Digits THEN 0
    ELSE LET a == Skip(s, i, Digits)
             b == IF a <= Len(s) /\ s[a] = "." THEN a + 1 ELSE a
         IN  Skip(s, b, Digits)

\* a match of (\d+\.?\d*)\s*-\s*(\d+\.?\d*) starting at i: its groups <<g1, g2>>, or NoMatch
RangeAt(s, i) ==
    LET e1 == NumEnd(s, i)
    IN  IF e1 = 0 THEN NoMatch
        ELSE LET k == Skip(s, e1, Whitespace)
             IN  IF k > Len(s) \/ s[k] # "-" THEN NoMatch
                 ELSE LET m == Skip(s, k + 1, Whitespace)
                          e2 == NumEnd(s, m)
                      IN  IF e2 = 0 THEN NoMatch
                          ELSE <<SubSeq(s, i, e1 - 1), SubSeq(s, m, e2 - 1)>>

\* a match of <op>\s*(\d+\.?\d*) starting at i: its groups <<g1>>, or NoMatch
CompareAt(s, i, op) ==
    IF s[i] # op THEN NoMatch
    ELSE LET m == Skip(s, i + 1, Whitespace)
             e == NumEnd(s, m)
         IN  IF e = 0 THEN NoMatch ELSE <<SubSeq(s, m, e - 1)>>

\* re.search: the match at the leftmost position that has one, or NoMatch
SearchRange(s) ==
    LET at == {i \in 1..Len(s) : RangeAt(s, i) # NoMatch}
    IN  IF at = {} THEN NoMatch
        ELSE RangeAt(s, CHOOSE i \in at : \A j \in at : i <= j)

SearchCompare(s, op) ==
    LET at == {i \in 1..Len(s) : CompareAt(s, i, op) # NoMatch}
    IN  IF at = {} THEN NoMatch
        ELSE CompareAt(s, CHOOSE i \in at : \A j \in at : i <= j, op)

\* clean = limit_str.strip().lower().replace("-" en dash, "-").replace("to", "-")
Normalize(t) ==
    Replace(Replace(Lower(Strip(t)), <<"ndash">>, <<"-">>), <<"t", "o">>, <<"-">>)

\* the comparison patterns tried before the range pattern
parse_limit_string_less_first(v) ==
    IF ~IsStr(v) THEN <<None, None>>
    ELSE LET clean == Normalize(v.val)
             range_match == SearchRange(clean)
             less_match == SearchCompare(clean, "<")
             more_match == SearchCompare(clean, ">")
         IN  IF less_match # NoMatch THEN <<Float(0), Float(ToFloat(less_match[1]))>>
             ELSE IF more_match # NoMatch THEN <<Float(ToFloat(more_match[1])), None>>
             ELSE IF range_match # NoMatch
                  THEN <<Float(ToFloat(range_match[1])), Float(ToFloat(range_match[2]))>>
             ELSE <<None, None>>

parse_limit_string(v) ==
    IF ~IsStr(v) THEN <<None, None>>
    ELSE LET clean == Normalize(v.val)
             range_match == SearchRange(clean)
             less_match == SearchCompare(clean, "<")
             more_match == SearchCompare(clean, ">")
         IN  IF range_match # NoMatch
                  THEN <<Float(ToFloat(range_match[1])), Float(ToFloat(range_match[2]))>>
             ELSE IF less_match # NoMatch THEN <<Float(0), Float(ToFloat(less_match[1]))>>
             ELSE IF more_match # NoMatch THEN <<Float(ToFloat(more_match[1])), None>>
             ELSE <<None, None>>

-----------------------------------------------------------------------------
(* pandas values.  A grid (read with header=None) is a sequence of rows of *)
(* equal width; a cell is its text, and the empty text is an empty cell,   *)
(* which pandas reads as NaN.                                              *)

NaN == [type |-> "nan"]

NaT == [type |-> "NaT"]

MinutesPerDay == 24 * 60

\* a pandas Timestamp of January 2024: the day of the month, minutes past midnight
Timestamp(day, minute) == [type |-> "Timestamp", day |-> day, minute |-> minute]

\* the order of Timestamps
TsKey(ts) == ts.day * MinutesPerDay + ts.minute

\* a dict, which differs from None even when empty
Dict(items) == [type |-> "dict", items |-> items]

DataFrame(columns, rows) == [type |-> "DataFrame", columns |-> columns, rows |-> rows]

\* a cell of a frame read from the grid: NaN for an empty cell, else text
ReadCell(cell) == IF cell = <<>> THEN NaN ELSE PyText(cell)

\* str(val), astype(str)
AsStr(cell) == IF cell = <<>> THEN <<"n", "a", "n">> ELSE cell

Range0(n) == 0..(n - 1)

Min(a, b) == IF a <= b THEN a ELSE b

\* pd.to_numeric(errors='coerce') of one cell: Float, or NaN.  Text is a
\* number when, stripped, it is an optional sign and digits [ "." digits ].
ToNumeric(v) ==
    IF v.type # "str" THEN NaN
    ELSE LET t == Strip(v.val)
             neg == Len(t) > 0 /\ t[1] = "-"
             body == IF Len(t) > 0 /\ t[1] \in {"-", "+"} THEN Tail(t) ELSE t
         IN  IF NumEnd(body, 1) = Len(body) + 1 /\ Len(body) > 0
             THEN Float(IF neg THEN 0 - ToFloat(body) ELSE ToFloat(body))
             ELSE NaN

TwoDigits(t) ==
    IF Len(t) = 2 /\ t[1] \in Digits /\ t[2] \in Digits THEN DigitsVal(t) ELSE 0 - 1

\* pd.to_datetime(errors='coerce') of one cell, for the ISO texts of January
\* 2024, "2024-01-DD" and "2024-01-DD HH:MM"; any other cell of the model's
\* vocabulary (a word, a placeholder, an empty cell) is NaT.
ToDatetime(v) ==
    IF v.type # "str" THEN NaT
    ELSE LET t == v.val
             prefix == <<"2", "0", "2", "4", "-", "0", "1", "-">>
             day == TwoDigits(SubSeq(t, 9, 10))
             hour == TwoDigits(SubSeq(t, 12, 13))
             minute == TwoDigits(SubSeq(t, 15, 16))
         IN  IF Len(t) \notin {10, 16} \/ SubSeq(t, 1, 8) # prefix THEN NaT
             ELSE IF day < 1 \/ day > 31 THEN NaT
             ELSE IF Len(t) = 10 THEN Timestamp(day, 0)
             ELSE IF t[11] = " " /\ t[14] = ":" /\ hour \in 0..23 /\ minute \in 0..59
                  THEN Timestamp(day, hour * 60 + minute)
             ELSE NaT

-----------------------------------------------------------------------------
(* process_file                                                            *)

keywords ==
    << <<"p", "a", "r", "a", "m", "e", "t", "e", "r", "s">>,
       <<"d", "a", "t", "e">>,
       <<"p", "h">>,
       <<"t", "d", "s">>,
       <<"h", "a", "r", "d", "n", "e", "s", "s">>,
       <<"a", "l", "k", "a", "l", "i", "n", "i", "t", "y">> >>

HeaderScanRows == 15

LimitScanRows == 20

HeaderThreshold == 2

CanonicalDate == <<"D", "A", "T", "E">>

ControlLimit == <<"c", "o", "n", "t", "r", "o", "l", " ", "l", "i", "m", "i", "t">>

\* raw.iloc[i].astype(str).str.lower().tolist()
RowStr(raw, i) == [j \in 1..Len(raw[i + 1]) |-> Lower(AsStr(raw[i + 1][j]))]

\* sum(1 for k in keywords[n:] if any(k in s for s in row_str))
RECURSIVE KeywordCount(_, _)
KeywordCount(row_str, n) ==
    IF n > Len(keywords) THEN 0
    ELSE (IF \E j \in 1..Len(row_str) : Contains(keywords[n], row_str[j]) THEN 1 ELSE 0)
         + KeywordCount(row_str, n + 1)

IsHeaderRow(raw, i) == KeywordCount(RowStr(raw, i), 1) >= HeaderThreshold

\* the loop of lines 101-106 from row i on: the first qualifying row, 0 when
\* the loop ends without a break
RECURSIVE HeaderLoop(_, _, _)
HeaderLoop(raw, i, stop) ==
    IF i >= stop THEN 0
    ELSE IF IsHeaderRow(raw, i) THEN i
    ELSE HeaderLoop(raw, i + 1, stop)

\* the scan without its bound of 15 rows
DetectHeader_unbounded(raw) == HeaderLoop(raw, 0, Len(raw))

DetectHeader(raw) == HeaderLoop(raw, 0, Min(HeaderScanRows, Len(raw)))

\* 'control limit' in raw.iloc[i].astype(str).str.lower().values
IsLimitRow(raw, i) == \E j \in 1..Len(raw[i + 1]) : RowStr(raw, i)[j] = ControlLimit

\* the loop of lines 111-114: <<i>> for the first limit row, <<>> for None
RECURSIVE LimitLoop(_, _, _)
LimitLoop(raw, i, stop) ==
    IF i >= stop THEN <<>>
    ELSE IF IsLimitRow(raw, i) THEN <<i>>
    ELSE LimitLoop(raw, i + 1, stop)

DetectLimitRow(raw) == LimitLoop(raw, 0, Min(LimitScanRows, Len(raw)))

\* an entry is recorded whatever the parser returned
HasBound_always(mn, mx) == TRUE

\* mn is not None or mx is not None
HasBound(mn, mx) == mn # None \/ mx # None

\* the loop of lines 119-122 from position j of zip(header_row, raw_row) on
RECURSIVE ExtractLoop(_, _, _, _)
ExtractLoop(header_row, raw_row, j, extracted_limits) ==
    IF j > Min(Len(header_row), Len(raw_row)) THEN extracted_limits
    ELSE LET bounds == parse_limit_string(PyText(AsStr(raw_row[j])))
             mn == bounds[1]
             mx == bounds[2]
             key == Strip(AsStr(header_row[j]))
         IN  ExtractLoop(header_row, raw_row, j + 1,
                IF HasBound(mn, mx)
                THEN (key :> [min |-> mn, max |-> mx]) @@ extracted_limits
                ELSE extracted_limits)

ExtractLimits(raw, header_idx, limit_idx) ==
    IF limit_idx = <<>> THEN <<>>
    ELSE ExtractLoop(raw[header_idx + 1], raw[limit_idx[1] + 1], 1, <<>>)

\* the digits of a natural number
RECURSIVE Decimal(_)
Decimal(n) ==
    LET last == CHOOSE c \in Digits : DigitVal(c) = n % 10
    IN  IF n < 10 THEN <<last>> ELSE Append(Decimal(n \div 10), last)

\* the names pandas gives the columns when row header_idx is the header: an
\* empty cell is "Unnamed: j", and a name seen c times before gets ".c"
HeaderNames(header_row) ==
    LET named == [j \in 1..Len(header_row) |->
                    IF header_row[j] = <<>>
                    THEN <<"U", "n", "n", "a", "m", "e", "d", ":", " ">> \o Decimal(j - 1)
                    ELSE header_row[j]]
        seen(j) == Cardinality({h \in 1..(j - 1) : named[h] = named[j]})
    IN  [j \in 1..Len(named) |->
            IF seen(j) = 0 THEN named[j] ELSE named[j] \o <<".">> \o Decimal(seen(j))]

\* df.columns = [str(c).strip() for c in df.columns]
CleanColumnNames(names) == [j \in 1..Len(names) |-> Strip(names[j])]

\* 'date' in c.lower() or 'parameters' in c.lower()
LooksLikeDate(c) == Contains(keywords[2], Lower(c)) \/ Contains(keywords[1], Lower(c))

\* the loop of lines 137-140 from column j on
RECURSIVE DateColumnLoop(_, _, _)
DateColumnLoop(columns, j, date_col) ==
    IF j > Len(columns) THEN date_col
    ELSE IF LooksLikeDate(columns[j]) THEN columns[j]
    ELSE DateColumnLoop(columns, j + 1, date_col)

\* date_col = df.columns[0], then the loop
DateColumn(columns) == DateColumnLoop(columns, 1, columns[1])

\* df.rename(columns={date_col: 'DATE'}): every column labelled date_col
Rename(columns, date_col) ==
    [j \in 1..Len(columns) |-> IF columns[j] = date_col THEN CanonicalDate ELSE columns[j]]

\* the positions of the columns labelled name
Labelled(columns, name) == {j \in 1..Len(columns) : columns[j] = name}

\* the rows under the header row, as the second read returns them
DataRows(raw, header_idx) ==
    [r \in 1..(Len(raw) - header_idx - 1) |->
        [j \in 1..Len(raw[header_idx + 1 + r]) |-> ReadCell(raw[header_idx + 1 + r][j])]]

\* df['DATE'] = pd.to_datetime(df['DATE'], errors='coerce'), column d
CoerceDates(rows, d) ==
    [r \in 1..Len(rows) |-> [rows[r] EXCEPT ![d] = ToDatetime(rows[r][d])]]

\* df.dropna(subset=['DATE'])
RECURSIVE DropNaT(_, _)
DropNaT(rows, d) ==
    IF rows = <<>> THEN <<>>
    ELSE IF Head(rows)[d] = NaT THEN DropNaT(Tail(rows), d)
    ELSE <<Head(rows)>> \o DropNaT(Tail(rows), d)

IsSortedBy(rows, d) ==
    \A r \in 1..(Len(rows) - 1) : TsKey(rows[r][d]) <= TsKey(rows[r + 1][d])

\* the rows in any order
SortValues_unsorted(rows, d) ==
    {[r \in 1..Len(rows) |-> rows[f[r]]] : f \in Permutations(1..Len(rows))}

\* df.sort_values('DATE'): the default sort is not stable, so rows of equal
\* date come in any order
SortValues(rows, d) ==
    {sorted \in {[r \in 1..Len(rows) |-> rows[f[r]]] : f \in Permutations(1..Len(rows))} :
        IsSortedBy(sorted, d)}

\* the locals of process_file when it returns or raises
Locals(reached, header_idx, limit_idx, extracted_limits, columns, date_col, renamed) ==
    [reached |-> reached, header_idx |-> header_idx, limit_idx |-> limit_idx,
     extracted_limits |-> extracted_limits, columns |-> columns,
     date_col |-> date_col, renamed |-> renamed]

-----------------------------------------------------------------------------
(* Values the variables hold while the part of the program they belong to  *)
(* has not run                                                             *)

NoFile == [readable |-> FALSE, rows |-> <<>>]

NoLocals == [reached |-> "none"]

NotParsed == <<>>

\* st.error(f"Error reading file. ... Error: {e}")
ErrorReading(e) == [type |-> "st.error", text |-> "Error reading file", cause |-> e]

\* st.error("The file was read, but no valid data rows (with dates) were found.")
ErrorNoRows == [type |-> "st.error", text |-> "no valid data rows", cause |-> "none"]

\* an exception nothing catches: the script stops with it
Uncaught(e, where) == [type |-> "exception", text |-> where, cause |-> e]

Raise(e) == [type |-> "raise", exc |-> e]

\* the file process_file reads: a grid, or bytes no reader can parse.  Which
\* reader runs (read_csv for a name ending in .csv, read_excel otherwise)
\* changes nothing the model keeps.
File(rows) == [readable |-> TRUE, rows |-> rows]

Unreadable == [readable |-> FALSE, rows |-> <<>>]

\* process_file, lines 89-152
ProcessFile ==
    /\ pc = "uploaded"
    /\ IF ~uploaded_file.readable
       THEN /\ pc' = "failed"
            /\ df' = None
            /\ limits' = None
            /\ error' = ErrorReading("ParserError")
            /\ locals' = [reached |-> "read"]
       ELSE LET raw == uploaded_file.rows
                header_idx == DetectHeader(raw)
                limit_idx == DetectLimitRow(raw)
                extracted_limits == Dict(ExtractLimits(raw, header_idx, limit_idx))
                columns == CleanColumnNames(HeaderNames(raw[header_idx + 1]))
                date_col == DateColumn(columns)
                renamed == Rename(columns, date_col)
                dates == Labelled(renamed, CanonicalDate)
            IN  IF Cardinality(dates) # 1
                THEN \* pd.to_datetime of a frame with duplicate columns raises
                     /\ pc' = "failed"
                     /\ df' = None
                     /\ limits' = None
                     /\ error' = ErrorReading("ValueError")
                     /\ locals' = Locals("to_datetime", header_idx, limit_idx,
                                         extracted_limits, columns, date_col, renamed)
                ELSE LET d == CHOOSE c \in dates : TRUE
                         kept == DropNaT(CoerceDates(DataRows(raw, header_idx), d), d)
                     IN  \E sorted \in SortValues(kept, d) :
                            /\ pc' = "loaded"
                            /\ df' = DataFrame(renamed, sorted)
                            /\ limits' = extracted_limits
                            /\ error' = None
                            /\ locals' = Locals("return", header_idx, limit_idx,
                                                extracted_limits, columns, date_col, renamed)
    /\ UNCHANGED <<uploaded_file, quality, pdf, violations, limit_str, parsed>>

-----------------------------------------------------------------------------
(* analyze_data_quality                                                    *)

EmptyReport ==
    [type |-> "report", date_gaps |-> <<>>, missing_values |-> <<>>,
     total_days |-> 0, date_range |-> <<None, None>>]

\* the row whose date is least / greatest
MinDate(rows, d) == (CHOOSE r \in 1..Len(rows) :
                        \A q \in 1..Len(rows) : TsKey(rows[r][d]) <= TsKey(rows[q][d]))

MaxDate(rows, d) == (CHOOSE r \in 1..Len(rows) :
                        \A q \in 1..Len(rows) : TsKey(rows[q][d]) <= TsKey(rows[r][d]))

\* pd.date_range(start, end, freq='D'): start, start + 1 day, ... while <= end
DateRange(start, end) ==
    [k \in 1..((TsKey(end) - TsKey(start)) \div MinutesPerDay + 1) |->
        Timestamp(start.day + (k - 1), start.minute)]

\* the loop of lines 71-73 over full_range[k..]
RECURSIVE GapLoop(_, _, _)
GapLoop(full_range, k, existing_dates) ==
    IF k > Len(full_range) THEN <<>>
    ELSE (IF full_range[k].day \notin existing_dates THEN <<full_range[k].day>> ELSE <<>>)
         \o GapLoop(full_range, k + 1, existing_dates)

\* numeric_series.isna().sum() for column j
MissingCount(rows, j) == Cardinality({r \in 1..Len(rows) : ToNumeric(rows[r][j]) = NaN})

\* missing_count > 0
Reported(missing_count) == missing_count > 0

\* the loop of lines 77-85 from column j on; df[col] of a label that two
\* columns carry is a frame, which pd.to_numeric refuses with a TypeError
RECURSIVE MissingLoop(_, _, _)
MissingLoop(frame, j, missing_values) ==
    IF j > Len(frame.columns) THEN Dict(missing_values)
    ELSE LET col == frame.columns[j]
         IN  IF col = CanonicalDate THEN MissingLoop(frame, j + 1, missing_values)
             ELSE IF Cardinality(Labelled(frame.columns, col)) > 1 THEN Raise("TypeError")
             ELSE LET missing_count == MissingCount(frame.rows, j)
                  IN  MissingLoop(frame, j + 1,
                        IF Reported(missing_count)
                        THEN (col :> missing_count) @@ missing_values
                        ELSE missing_values)

GapDays(full_range, existing_dates) == GapLoop(full_range, 1, existing_dates)

analyze_data_quality(frame) ==
    IF frame.rows = <<>> \/ frame.columns = <<>> \/ Labelled(frame.columns, CanonicalDate) = {}
    THEN EmptyReport
    ELSE LET d == CHOOSE c \in Labelled(frame.columns, CanonicalDate) : TRUE
             min_date == frame.rows[MinDate(frame.rows, d)][d]
             max_date == frame.rows[MaxDate(frame.rows, d)][d]
             full_range == DateRange(min_date, max_date)
             existing_dates == {frame.rows[r][d].day : r \in 1..Len(frame.rows)}
             missing_values == MissingLoop(frame, 1, <<>>)
         IN  IF missing_values.type = "raise" THEN missing_values
             ELSE [type |-> "report",
                   date_gaps |-> GapDays(full_range, existing_dates),
                   missing_values |-> missing_values.items,
                   total_days |-> Len(full_range),
                   date_range |-> <<min_date, max_date>>]

-----------------------------------------------------------------------------
(* generate_pdf                                                            *)

ChunkSize == 3

\* not pd.to_numeric(df[col], errors='coerce').dropna().empty
HasNumbers(rows, j) == \E r \in 1..Len(rows) : ToNumeric(rows[r][j]) # NaN

\* the positions of the columns generate_pdf plots, in order
RECURSIVE ValidCols(_, _)
ValidCols(frame, j) ==
    IF j > Len(frame.columns) THEN <<>>
    ELSE (IF frame.columns[j] # CanonicalDate /\ HasNumbers(frame.rows, j) THEN <<j>> ELSE <<>>)
         \o ValidCols(frame, j + 1)

\* plot_data: the (DATE, VAL) pairs of the rows whose value is a number
RECURSIVE PlotData(_, _, _, _)
PlotData(rows, d, j, r) ==
    IF r > Len(rows) THEN <<>>
    ELSE (IF ToNumeric(rows[r][j]) # NaN
          THEN <<[DATE |-> rows[r][d], VAL |-> ToNumeric(rows[r][j]).val]>> ELSE <<>>)
         \o PlotData(rows, d, j, r + 1)

\* limits.get(col, {'min': None, 'max': None})
LimitsGet(limit_map, col) ==
    IF col \in DOMAIN limit_map.items THEN limit_map.items[col] ELSE [min |-> None, max |-> None]

\* one chart: the series and the reference lines drawn for column j
Chart(frame, limit_map, d, j) ==
    LET lim == LimitsGet(limit_map, frame.columns[j])
    IN  [col |-> frame.columns[j], plot_data |-> PlotData(frame.rows, d, j, 1),
         min_line |-> lim.min, max_line |-> lim.max]

\* chunks = [valid_cols[i:i+3] for i in range(0, len(valid_cols), 3)]
Chunks(valid_cols) ==
    [c \in 1..((Len(valid_cols) + ChunkSize - 1) \div ChunkSize) |->
        SubSeq(valid_cols, (c - 1) * ChunkSize + 1, Min(c * ChunkSize, Len(valid_cols)))]

\* generate_pdf: None when nothing can be plotted, the document otherwise.
\* pd.to_numeric refuses a label two columns carry, and a chunk of one
\* column wraps the array of three axes in a list (line 175), so axes[0] is
\* the array and ax.plot raises AttributeError.
generate_pdf(frame, limit_map) ==
    LET d == CHOOSE c \in Labelled(frame.columns, CanonicalDate) : TRUE
        valid_cols == ValidCols(frame, 1)
        chunks == Chunks(valid_cols)
    IN  IF \E j \in 1..Len(frame.columns) :
              frame.columns[j] # CanonicalDate /\ Cardinality(Labelled(frame.columns, frame.columns[j])) > 1
        THEN Raise("TypeError")
        ELSE IF valid_cols = <<>> THEN None
        ELSE IF \E c \in 1..Len(chunks) : Len(chunks[c]) = 1 THEN Raise("AttributeError")
        ELSE [type |-> "pdf", path |-> "Report.pdf",
              pages |-> [c \in 1..Len(chunks) |->
                            [k \in 1..Len(chunks[c]) |-> Chart(frame, limit_map, d, chunks[c][k])]]]

-----------------------------------------------------------------------------
(* The main interface, lines 224-282                                       *)

\* line 231: the quality analysis of a table that has rows
AnalyzeQuality ==
    /\ pc = "loaded"
    /\ df # None
    /\ df.rows # <<>> /\ df.columns # <<>>
    /\ LET report == analyze_data_quality(df)
       IN  IF report.type = "raise"
           THEN /\ pc' = "crashed"
                /\ error' = Uncaught(report.exc, "analyze_data_quality")
                /\ quality' = quality
           ELSE /\ pc' = "analyzed"
                /\ error' = error
                /\ quality' = report
    /\ UNCHANGED <<uploaded_file, df, limits, locals, pdf, violations, limit_str, parsed>>

\* lines 281-282: a table without rows is reported, nothing else runs
ReportNoRows ==
    /\ pc = "loaded"
    /\ df # None
    /\ df.rows = <<>> \/ df.columns = <<>>
    /\ pc' = "nodata"
    /\ error' = ErrorNoRows
    /\ UNCHANGED <<uploaded_file, df, limits, locals, quality, pdf, violations,
                   limit_str, parsed>>

\* lines 266-280: the button is pressed and the report generated
GeneratePdf ==
    /\ pc = "analyzed"
    /\ LET pdf_path == generate_pdf(df, limits)
       IN  IF pdf_path.type = "raise"
           THEN /\ pc' = "crashed"
                /\ error' = Uncaught(pdf_path.exc, "generate_pdf")
                /\ pdf' = pdf
           ELSE /\ pc' = "rendered"
                /\ error' = error
                /\ pdf' = pdf_path
    /\ UNCHANGED <<uploaded_file, df, limits, locals, quality, violations, limit_str, parsed>>

Next == ProcessFile \/ AnalyzeQuality \/ ReportNoRows \/ GeneratePdf

-----------------------------------------------------------------------------
(* The violation check of the specification (section 4.5).  src/app.py has *)
(* no such function: generate_pdf only draws the limits as lines.          *)

Violation(date, parameter, value, bound, bound_value) ==
    [date |-> date, parameter |-> parameter, value |-> value,
     bound |-> bound, bound_value |-> bound_value]

\* a value on the bound counts as beyond it
Exceeds_inclusive(value, bound) == value >= bound

\* strictly exceeds
Exceeds(value, bound) == value > bound

\* the violations of row r, column j
CellViolations(frame, limit_map, d, r, j) ==
    LET col == frame.columns[j]
        value == ToNumeric(frame.rows[r][j])
    IN  IF col = CanonicalDate \/ col \notin DOMAIN limit_map.items \/ value = NaN THEN <<>>
        ELSE LET lim == limit_map.items[col]
             IN  (IF lim.max # None /\ Exceeds(value.val, lim.max.val)
                  THEN <<Violation(frame.rows[r][d], col, value.val, "max", lim.max.val)>>
                  ELSE <<>>)
                 \o
                 (IF lim.min # None /\ Exceeds(lim.min.val, value.val)
                  THEN <<Violation(frame.rows[r][d], col, value.val, "min", lim.min.val)>>
                  ELSE <<>>)

\* the scan, row by row and column by column, from row r, column j on
RECURSIVE CheckLoop(_, _, _, _, _)
CheckLoop(frame, limit_map, d, r, j) ==
    IF r > Len(frame.rows) THEN <<>>
    ELSE IF j > Len(frame.columns) THEN CheckLoop(frame, limit_map, d, r + 1, 1)
    ELSE CellViolations(frame, limit_map, d, r, j) \o CheckLoop(frame, limit_map, d, r, j + 1)

check(frame, limit_map) ==
    CheckLoop(frame, limit_map, CHOOSE c \in Labelled(frame.columns, CanonicalDate) : TRUE, 1, 1)

\* the violation scan applied to what process_file returned
CheckLimits ==
    /\ pc = "loaded"
    /\ df # None
    /\ violations' = check(df, limits)
    /\ pc' = "checked"
    /\ UNCHANGED <<uploaded_file, df, limits, locals, error, quality, pdf, limit_str, parsed>>

-----------------------------------------------------------------------------
(* The texts the grids of the model are made of                            *)

T_Date == <<"D", "a", "t", "e">>
T_DateSp == <<"D", "a", "t", "e", " ">>
T_DATE == <<"D", "A", "T", "E">>
T_PARAMETERS == <<"P", "A", "R", "A", "M", "E", "T", "E", "R", "S">>
T_pH == <<"p", "H">>
T_pHSp == <<"p", "H", " ">>
T_TDS == <<"T", "D", "S">>
T_pH_TDS == <<"p", "H", "/", "T", "D", "S">>
T_Plant == <<"P", "l", "a", "n", "t">>
T_Report == <<"R", "e", "p", "o", "r", "t">>
T_Unit == <<"U", "n", "i", "t">>
T_Nil == <<"N", "i", "l">>
T_Empty == <<>>
T_ControlLimit == <<"C", "o", "n", "t", "r", "o", "l", " ", "L", "i", "m", "i", "t">>
T_CONTROL_LIMIT == <<"C", "O", "N", "T", "R", "O", "L", " ", "L", "I", "M", "I", "T">>
T_6p5_8p5 == <<"6", ".", "5", "-", "8", ".", "5">>
T_6_to_8 == <<"6", " ", "t", "o", " ", "8">>
T_8_6 == <<"8", "-", "6">>
T_lt5 == <<"<", " ", "5">>
T_gt5 == <<">", "5">>
T_NA == <<"N", "/", "A">>
T_3 == <<"3">>
T_5 == <<"5">>
T_7 == <<"7">>
T_9 == <<"9">>
T_6p5 == <<"6", ".", "5">>
T_7p2 == <<"7", ".", "2">>
T_8p5 == <<"8", ".", "5">>

\* "2024-01-DD HH:00"
DateText(day, hour) ==
    <<"2", "0", "2", "4", "-", "0", "1", "-">> \o
        (IF day < 10 THEN <<"0">> \o Decimal(day) ELSE Decimal(day)) \o <<" ">> \o
        (IF hour < 10 THEN <<"0">> \o Decimal(hour) ELSE Decimal(hour)) \o <<":", "0", "0">>

\* the date cells of the model's grids, all in one format (pandas 2 reads a
\* column in the format of its first date): midnight, and six in the evening
Jan(day) == DateText(day, 0)

JanEvening(day) == DateText(day, 18)

\* the sequences of at most n members of set
RECURSIVE SeqsUpTo(_, _)
SeqsUpTo(set, n) ==
    IF n = 0 THEN {<<>>}
    ELSE LET shorter == SeqsUpTo(set, n - 1)
         IN  shorter \cup {Append(q, x) : q \in shorter, x \in set}

Idle ==
    /\ df = None
    /\ limits = None
    /\ locals = NoLocals
    /\ error = None
    /\ quality = None
    /\ pdf = None
    /\ violations = None
    /\ limit_str = None
    /\ parsed = NotParsed

-----------------------------------------------------------------------------
(* Spec: the whole script on a short report, a header row, an optional     *)
(* limit row and dated rows with two parameters                            *)

ReportHeaders ==
    {<<T_Date, T_pH, T_TDS>>, <<T_Date, T_pH, T_pHSp>>,
     <<T_PARAMETERS, T_pH, T_DATE>>, <<T_Date, T_DateSp, T_TDS>>}

ReportLimitRows == {<<>>, <<<<T_CONTROL_LIMIT, T_6p5_8p5, T_lt5>>>>}

ReportRows ==
    {<<date, v[1], v[2]>> :
        date \in {Jan(day) : day \in 1..MaxDay} \cup {JanEvening(1), T_Unit},
        v \in {<<T_7p2, T_9>>, <<T_Nil, T_Empty>>}}

Reports ==
    {File(<<header>> \o limit \o rows) :
        header \in ReportHeaders, limit \in ReportLimitRows,
        rows \in SeqsUpTo(ReportRows, MaxDataRows)}

Init ==
    /\ pc = "uploaded"
    /\ uploaded_file \in Reports \cup {Unreadable}
    /\ Idle

Spec == Init /\ [][Next]_vars

-----------------------------------------------------------------------------
(* SpecLoad: process_file on every header row over a small vocabulary of   *)
(* column names                                                            *)

ColumnNames == {T_Date, T_DateSp, T_DATE, T_PARAMETERS, T_pH, T_pHSp, T_TDS}

LoadRows == {<<Jan(1), Jan(1), Jan(1)>>, <<Jan(2), Jan(2), Jan(2)>>, <<T_Nil, T_Nil, T_Nil>>}

Loads ==
    {File(<<header>> \o rows) :
        header \in ColumnNames \X ColumnNames \X ColumnNames,
        rows \in SeqsUpTo(LoadRows, 1)}

InitLoad ==
    /\ pc = "uploaded"
    /\ uploaded_file \in Loads
    /\ Idle

SpecLoad == InitLoad /\ [][ProcessFile]_vars

-----------------------------------------------------------------------------
(* SpecHeader: process_file on tall grids, rows of free text with at most  *)
(* two rows of another kind among them                                     *)

JunkRow == <<T_Plant, T_Report, T_Empty>>

SpecialRows ==
    {<<T_Date, T_pH, T_TDS>>,                 \* three keywords
     <<T_Date, T_DateSp, T_Empty>>,           \* one keyword, twice
     <<T_pH_TDS, T_Plant, T_Empty>>,          \* two keywords in one cell
     <<T_ControlLimit, T_6_to_8, T_lt5>>,     \* a limit row
     <<T_CONTROL_LIMIT, T_NA, T_gt5>>,        \* another
     <<Jan(1), T_7, T_3>>}                    \* a dated row

\* where the rows of another kind stand: at the top, around the last row
\* the header scan reads, around the last row the limit scan reads, at the end
TallPositions ==
    {1, 2, 3} \cup ((HeaderScanRows - 1)..(HeaderScanRows + 2))
              \cup ((LimitScanRows - 1)..(LimitScanRows + 1)) \cup {MaxRows}

TallLengths == {3, HeaderScanRows + 1, MaxRows}

TallGrids ==
    {[i \in 1..n |-> IF i = p[1] THEN k[1] ELSE IF i = p[2] THEN k[2] ELSE JunkRow] :
        n \in TallLengths, p \in TallPositions \X TallPositions,
        k \in (SpecialRows \cup {JunkRow}) \X SpecialRows}

InitHeader ==
    /\ pc = "uploaded"
    /\ uploaded_file \in {File(g) : g \in TallGrids}
    /\ Idle

SpecHeader == InitHeader /\ [][ProcessFile]_vars

-----------------------------------------------------------------------------
(* SpecCheck: the violation check on what process_file returns for a       *)
(* report with a limit row                                                 *)

CheckLimitRows ==
    {<<>>, <<<<T_ControlLimit, T_6p5_8p5, T_lt5>>>>, <<<<T_ControlLimit, T_8_6, T_gt5>>>>}

CheckRows ==
    {<<Jan(1), a, b>> : a \in {T_9, T_5, T_7, T_6p5, T_8p5, T_Nil}, b \in {T_3, T_5, T_7}}

Checks ==
    {File(<<<<T_Date, T_pH, T_TDS>>>> \o limit \o rows) :
        limit \in CheckLimitRows, rows \in SeqsUpTo(CheckRows, MaxDataRows)}

InitCheck ==
    /\ pc = "uploaded"
    /\ uploaded_file \in Checks
    /\ Idle

NextCheck == ProcessFile \/ CheckLimits

SpecCheck == InitCheck /\ [][NextCheck]_vars

-----------------------------------------------------------------------------
(* SpecQuality: the load and the quality analysis of reports whose column  *)
(* names are distinct                                                      *)

QualityReports ==
    {File(<<<<T_Date, T_pH, T_TDS>>>> \o limit \o rows) :
        limit \in ReportLimitRows, rows \in SeqsUpTo(ReportRows, MaxDataRows)}

InitQuality ==
    /\ pc = "uploaded"
    /\ uploaded_file \in QualityReports
    /\ Idle

NextQuality == ProcessFile \/ AnalyzeQuality \/ ReportNoRows

SpecQuality == InitQuality /\ [][NextQuality]_vars

-----------------------------------------------------------------------------
(* SpecParse: parse_limit_string applied to every short argument           *)

ParseAlphabet == {"1", "2", ".", "-", "<", ">", " ", "t", "o", "T", "ndash"}

RECURSIVE TextsUpTo(_, _)
TextsUpTo(alphabet, n) ==
    IF n = 0 THEN {<<>>}
    ELSE LET shorter == TextsUpTo(alphabet, n - 1)
         IN  shorter \cup {Append(t, c) : t \in shorter, c \in alphabet}

ParseInputs ==
    {PyText(t) : t \in TextsUpTo(ParseAlphabet, MaxLen)} \cup {None, Float(5 * Scale)}

InitParse ==
    /\ pc = "parse"
    /\ limit_str \in ParseInputs
    /\ parsed = NotParsed
    /\ uploaded_file = NoFile
    /\ df = None
    /\ limits = None
    /\ locals = NoLocals
    /\ error = None
    /\ quality = None
    /\ pdf = None
    /\ violations = None

ParseLimit ==
    /\ pc = "parse"
    /\ parsed' = parse_limit_string(limit_str)
    /\ pc' = "parsed"
    /\ UNCHANGED <<uploaded_file, df, limits, locals, error, quality, pdf,
                   violations, limit_str>>

SpecParse == InitParse /\ [][ParseLimit]_vars

-----------------------------------------------------------------------------
(* C1                                                                      *)

\* t is a decimal number: digits, then optionally "." and more digits
IsNumberText(t) ==
    \E d \in 1..Len(t) :
        /\ \A i \in 1..d : t[i] \in Digits
        /\ \/ d = Len(t)
           \/ t[d + 1] = "." /\ \A i \in (d + 2)..Len(t) : t[i] \in Digits

AllSpace(s, a, b) == \A i \in a..b : s[i] \in Whitespace

\* every place of s where two numbers stand around a hyphen (optionally spaced)
RangeOccurrences(s) ==
    UNION {
        {[start |-> q[1], end |-> q[4],
          first |-> SubSeq(s, q[1], q[2]), second |-> SubSeq(s, q[3], q[4])] :
            q \in {r \in (1..(k - 1)) \X (1..(k - 1)) \X ((k + 1)..Len(s)) \X ((k + 1)..Len(s)) :
                    /\ r[1] <= r[2] /\ r[3] <= r[4]
                    /\ AllSpace(s, r[2] + 1, k - 1) /\ AllSpace(s, k + 1, r[3] - 1)
                    /\ IsNumberText(SubSeq(s, r[1], r[2]))
                    /\ IsNumberText(SubSeq(s, r[3], r[4]))}} :
        k \in {h \in 1..Len(s) : s[h] = "-"}}

\* every place of s where op stands before a number (optionally spaced)
CompareOccurrences(s, op) ==
    UNION {
        {[start |-> k, end |-> q[2], number |-> SubSeq(s, q[1], q[2])] :
            q \in {r \in ((k + 1)..Len(s)) \X ((k + 1)..Len(s)) :
                    /\ r[1] <= r[2]
                    /\ AllSpace(s, k + 1, r[1] - 1)
                    /\ IsNumberText(SubSeq(s, r[1], r[2]))}} :
        k \in {h \in 1..Len(s) : s[h] = op}}

\* the leftmost occurrences, and among them the longest
First(occ) ==
    {o \in occ : \A p \in occ :
        o.start <= p.start /\ (p.start = o.start => p.end <= o.end)}

\* C1: parse_limit_string tries range, then "<", then ">", and the first
\* pattern that occurs in the normalized text decides the result: (first,
\* second) for a range, (0.0, number) for "<", (number, None) for ">",
\* (None, None) when none occurs or the argument is not text.
C1_PriorityOrder ==
    pc = "parsed" =>
        IF ~IsStr(limit_str) THEN parsed = <<None, None>>
        ELSE LET clean == Normalize(limit_str.val)
                 ranges == RangeOccurrences(clean)
                 lesses == CompareOccurrences(clean, "<")
                 mores == CompareOccurrences(clean, ">")
             IN  IF ranges # {}
                 THEN \E o \in First(ranges) :
                        parsed = <<Float(ToFloat(o.first)), Float(ToFloat(o.second))>>
                 ELSE IF lesses # {}
                 THEN \E o \in First(lesses) :
                        parsed = <<Float(0), Float(ToFloat(o.number))>>
                 ELSE IF mores # {}
                 THEN \E o \in First(mores) :
                        parsed = <<Float(ToFloat(o.number)), None>>
                 ELSE parsed = <<None, None>>

\* a text holding both a range and a comparison was parsed as the range
C1_Witness ==
    /\ pc = "parsed"
    /\ IsStr(limit_str)
    /\ RangeOccurrences(Normalize(limit_str.val)) # {}
    /\ CompareOccurrences(Normalize(limit_str.val), "<") # {}
    /\ parsed = <<Float(1 * Scale), Float(2 * Scale)>>

-----------------------------------------------------------------------------
(* C2, C3: the header row and the limit map                                *)

\* process_file got past reading the file
Scanned == locals.reached \in {"return", "to_datetime"}

LeastOf(set) == CHOOSE i \in set : \A h \in set : i <= h

\* row i names at least two distinct keywords
Qualifies(raw, i) ==
    Cardinality({k \in 1..Len(keywords) :
        \E j \in 1..Len(raw[i + 1]) : Contains(keywords[k], Lower(AsStr(raw[i + 1][j])))}) >= 2

\* C2: the header index is the least i < min(15, rows) whose row names at
\* least two distinct keywords, and 0 when no such row exists; a qualifying
\* row at index 15 or later is never selected, a later one never overrides
\* an earlier one.
C2_HeaderDetection ==
    Scanned =>
        LET raw == uploaded_file.rows
            qualifying == {i \in Range0(Min(15, Len(raw))) : Qualifies(raw, i)}
        IN  locals.header_idx = IF qualifying = {} THEN 0 ELSE LeastOf(qualifying)

\* the only rows that qualify stand at index 15 or later, and row 0 was taken
C2_Witness ==
    /\ Scanned
    /\ \E i \in Range0(Len(uploaded_file.rows)) : i >= 15 /\ Qualifies(uploaded_file.rows, i)
    /\ \A i \in Range0(Len(uploaded_file.rows)) : Qualifies(uploaded_file.rows, i) => i >= 15
    /\ locals.header_idx = 0

\* C3: the limit map has key k exactly when a limit row exists (the first of
\* the first 20 rows with a cell that reads 'control limit' in lower case)
\* and at some position of both rows the trimmed header cell is k and
\* parse_limit_string of the limit cell returns a bound; so it is empty
\* without a limit row, and no entry has both bounds absent.
C3_LimitMap ==
    Scanned =>
        LET raw == uploaded_file.rows
            header_row == raw[locals.header_idx + 1]
            limit_rows == {i \in Range0(Min(20, Len(raw))) :
                            \E j \in 1..Len(raw[i + 1]) : Lower(AsStr(raw[i + 1][j])) = ControlLimit}
            map == locals.extracted_limits.items
        IN  /\ limit_rows = {} => DOMAIN map = {}
            /\ limit_rows # {} =>
                LET limit_row == raw[LeastOf(limit_rows) + 1]
                    paired == 1..Min(Len(header_row), Len(limit_row))
                    bound(i) == parse_limit_string(PyText(AsStr(limit_row[i]))) # <<None, None>>
                IN  /\ \A k \in DOMAIN map :
                            \E i \in paired : Strip(AsStr(header_row[i])) = k /\ bound(i)
                    /\ \A i \in paired : bound(i) => Strip(AsStr(header_row[i])) \in DOMAIN map
            /\ \A k \in DOMAIN map : map[k].min # None \/ map[k].max # None
            /\ pc = "loaded" => limits = locals.extracted_limits

\* a limit row was found; one of its cells gave a bound and another gave none
C3_Witness ==
    /\ pc = "loaded"
    /\ locals.limit_idx # <<>>
    /\ DOMAIN limits.items # {}
    /\ \E j \in 1..3 :
          parse_limit_string(PyText(AsStr(uploaded_file.rows[locals.limit_idx[1] + 1][j])))
              = <<None, None>>
    /\ locals.header_idx > 0

-----------------------------------------------------------------------------
(* C4, C5, C6: the table process_file returns                              *)

DateIndex(frame) == CHOOSE c \in Labelled(frame.columns, CanonicalDate) : TRUE

\* how many rows of a sequence equal x
Count(rows, x) == Cardinality({r \in 1..Len(rows) : rows[r] = x})

\* the rows under the header whose cell in column d is a date, that cell read
DatedRows(raw, header_idx, d) ==
    LET under == [r \in 1..(Len(raw) - header_idx - 1) |-> raw[header_idx + 1 + r]]
        dated == SelectSeq(under, LAMBDA row : ToDatetime(ReadCell(row[d])) # NaT)
    IN  [r \in 1..Len(dated) |->
            [c \in 1..Len(dated[r]) |->
                IF c = d THEN ToDatetime(ReadCell(dated[r][c])) ELSE ReadCell(dated[r][c])]]

\* C4: a returned table has no row without a date and its rows ascend by
\* date: a row of the grid under the header is in the table exactly when its
\* date cell parses as a date.
C4_DatedAndSorted ==
    pc = "loaded" =>
        LET d == DateIndex(df)
            expected == DatedRows(uploaded_file.rows, locals.header_idx, d)
        IN  /\ \A r \in 1..Len(df.rows) : df.rows[r][d].type = "Timestamp"
            /\ \A r \in 1..(Len(df.rows) - 1) :
                  \/ df.rows[r][d].day < df.rows[r + 1][d].day
                  \/ /\ df.rows[r][d].day = df.rows[r + 1][d].day
                     /\ df.rows[r][d].minute <= df.rows[r + 1][d].minute
            /\ Len(df.rows) = Len(expected)
            /\ \A r \in 1..Len(expected) : Count(df.rows, expected[r]) = Count(expected, expected[r])

\* a row without a date was dropped and two dated rows changed places
C4_Witness ==
    /\ pc = "loaded"
    /\ Len(df.rows) = 2
    /\ Len(uploaded_file.rows) - locals.header_idx - 1 > 2
    /\ LET expected == DatedRows(uploaded_file.rows, locals.header_idx, DateIndex(df))
       IN  df.rows[1] = expected[2] /\ df.rows[1] # expected[1]

\* the leftmost column whose name holds 'date' or 'parameters', else the first
ChosenColumn(columns) ==
    LET hits == {j \in 1..Len(columns) :
                    \/ Contains(<<"d", "a", "t", "e">>, Lower(columns[j]))
                    \/ Contains(<<"p", "a", "r", "a", "m", "e", "t", "e", "r", "s">>, Lower(columns[j]))}
    IN  IF hits = {} THEN 1 ELSE LeastOf(hits)

\* C5: the date column is the leftmost column whose trimmed, lowercased name
\* contains 'date' or 'parameters', the first column when there is none; that
\* column, and only that column, is renamed to 'DATE'.
C5_DateColumn ==
    Scanned =>
        LET k == ChosenColumn(locals.columns)
        IN  /\ locals.date_col = locals.columns[k]
            /\ locals.renamed[k] = CanonicalDate
            /\ \A j \in 1..Len(locals.columns) : j # k => locals.renamed[j] = locals.columns[j]

\* C6: in every returned table the column names are unique, trimmed texts,
\* so exactly one column is named 'DATE', whatever the header row.
C6_UniqueColumns ==
    pc = "loaded" =>
        /\ \A a, b \in 1..Len(df.columns) : a # b => df.columns[a] # df.columns[b]
        /\ \A a \in 1..Len(df.columns) : Strip(df.columns[a]) = df.columns[a]
        /\ Cardinality(Labelled(df.columns, CanonicalDate)) = 1

-----------------------------------------------------------------------------
(* C7, C8: the quality report                                              *)

\* the script is past line 231 for a table that has rows
PastAnalysis == pc \in {"analyzed", "crashed", "rendered"}

\* the calendar days of the table's rows
PresentDays(frame) == {frame.rows[r][DateIndex(frame)].day : r \in 1..Len(frame.rows)}

\* C7: for a table with rows the report's date_range is the (least,
\* greatest) date of the rows and date_gaps lists, ascending and without
\* repetition, exactly the days between them that no row has; gaps plus
\* distinct present days make total_days.
C7_DateGaps ==
    PastAnalysis =>
        /\ quality # None
        /\ LET d == DateIndex(df)
               present == PresentDays(df)
               first == LeastOf(present)
               last == CHOOSE x \in present : \A y \in present : y <= x
               gaps == quality.date_gaps
           IN  /\ \A r \in 1..Len(df.rows) :
                     /\ TsKey(quality.date_range[1]) <= TsKey(df.rows[r][d])
                     /\ TsKey(df.rows[r][d]) <= TsKey(quality.date_range[2])
               /\ \E r \in 1..Len(df.rows) : df.rows[r][d] = quality.date_range[1]
               /\ \E r \in 1..Len(df.rows) : df.rows[r][d] = quality.date_range[2]
               /\ {gaps[g] : g \in 1..Len(gaps)} = (first..last) \ present
               /\ \A g \in 1..(Len(gaps) - 1) : gaps[g] < gaps[g + 1]
               /\ Len(gaps) + Cardinality(present) = quality.total_days

\* C8: missing_values has an entry for a column other than the date column
\* exactly when some row's value in it fails numeric coercion, and the entry
\* is the number of such rows; the date column has no entry.
C8_MissingValues ==
    PastAnalysis =>
        /\ quality # None
        /\ CanonicalDate \notin DOMAIN quality.missing_values
        /\ \A j \in 1..Len(df.columns) :
              df.columns[j] # CanonicalDate =>
                  LET failing == {r \in 1..Len(df.rows) :
                                    \/ df.rows[r][j].type # "str"
                                    \/ ~IsNumberText(Strip(df.rows[r][j].val))}
                  IN  /\ df.columns[j] \in DOMAIN quality.missing_values <=> failing # {}
                      /\ failing # {} =>
                            quality.missing_values[df.columns[j]] = Cardinality(failing)

-----------------------------------------------------------------------------
(* C9: failures                                                            *)

\* C9: a source that cannot be parsed fails the load with an error that
\* carries the cause, gives no table and no limit map, and neither the
\* analysis nor the rendering runs; a source that can be parsed never fails,
\* whatever its cells, and without dated rows it gives an empty table.
C9_StructuralFailure ==
    pc # "uploaded" =>
        /\ ~uploaded_file.readable =>
              /\ pc = "failed"
              /\ df = None /\ limits = None
              /\ error.type = "st.error" /\ error.cause # "none"
              /\ quality = None /\ pdf = None
        /\ uploaded_file.readable => pc # "failed" /\ df # None /\ limits # None

-----------------------------------------------------------------------------
(* C10: violations                                                         *)

\* the (row, column, bound) triples that are violations
ViolationTriples(frame, limit_map) ==
    {t \in (1..Len(frame.rows)) \X (1..Len(frame.columns)) \X {"min", "max"} :
        LET cell == frame.rows[t[1]][t[2]]
            col == frame.columns[t[2]]
        IN  /\ col # CanonicalDate
            /\ col \in DOMAIN limit_map.items
            /\ cell.type = "str" /\ IsNumberText(Strip(cell.val))
            /\ limit_map.items[col][t[3]] # None
            /\ IF t[3] = "max"
               THEN ToFloat(Strip(cell.val)) > limit_map.items[col].max.val
               ELSE ToFloat(Strip(cell.val)) < limit_map.items[col].min.val}

TripleViolation(frame, limit_map, t) ==
    Violation(frame.rows[t[1]][DateIndex(frame)], frame.columns[t[2]],
              ToFloat(Strip(frame.rows[t[1]][t[2]].val)), t[3],
              limit_map.items[frame.columns[t[2]]][t[3]].val)

\* C10: the violation list holds one entry for every row and column with a
\* limit whose number is strictly above the max bound, and one for every one
\* strictly below the min bound, and nothing else: a value on a bound or a
\* value that is no number gives none, and both are listed when min > max.
C10_Violations ==
    pc = "checked" =>
        LET triples == ViolationTriples(df, limits)
        IN  /\ Len(violations) = Cardinality(triples)
            /\ \A t \in triples :
                  LET v == TripleViolation(df, limits, t)
                  IN  Cardinality({n \in 1..Len(violations) : violations[n] = v})
                        = Cardinality({u \in triples : TripleViolation(df, limits, u) = v})

\* one value is listed twice, above the max bound and below the min bound,
\* while a value that is no number is listed nowhere
C10_Witness ==
    /\ pc = "checked"
    /\ \E a, b \in 1..Len(violations) :
          /\ violations[a].bound = "max" /\ violations[b].bound = "min"
          /\ violations[a].parameter = violations[b].parameter
          /\ violations[a].value = violations[b].value
    /\ \E r \in 1..Len(df.rows) : df.rows[r][2] = PyText(T_Nil)

====
